---------------------------- MODULE Spec2Model ----------------------------
(***************************************************************************)
(* A model of metapdf.py: the command-line tool that reads the metadata of *)
(* one PDF file, or of every PDF file of a directory tree, and saves it in *)
(* a semicolon-delimited .csv file.                                        *)
(*                                                                         *)
(* Three specifications share the module:                                  *)
(*   SpecExt  ensure_csv_extension as a pure function of the name          *)
(*   SpecVer  extract_pdf_version as a pure function of the file's bytes   *)
(*   Spec     main(): argument dispatch, extraction, aggregation, writing  *)
(*                                                                         *)
(* Python text is a sequence of one-character strings (names) or of code   *)
(* points (decoded bytes); a dict is a sequence of <<key, value>> pairs,   *)
(* which keeps the insertion order a Python dict keeps; a call's outcome   *)
(* is a record [raised, exc, val], so that an exception is a value the     *)
(* callers propagate or catch as the code does.                            *)
(***************************************************************************)
EXTENDS Integers, Sequences, FiniteSets, TLC

VARIABLES
    outputfile_name,  \* SpecExt: the name handed to ensure_csv_extension
    ext_result,       \* SpecExt: what ensure_csv_extension returned
    pdf_bytes,        \* SpecVer: the bytes of the file being sniffed
    version,          \* SpecVer: the outcome of extract_pdf_version
    inNode,           \* Spec: what the input path names on the filesystem
    outFs,            \* Spec: output path -> what is stored there
    args,             \* Spec: the arguments of the last call
    stdout,           \* Spec: the lines the last call printed
    extracted,        \* Spec: the paths the last call passed to extract_metadata
    written,          \* Spec: the metadata lists the last call passed to write_csv
    status            \* Spec: the exit status of the last call

vars == <<outputfile_name, ext_result, pdf_bytes, version,
          inNode, outFs, args, stdout, extracted, written, status>>

extVars == <<outputfile_name, ext_result>>
verVars == <<pdf_bytes, version>>
mainVars == <<inNode, outFs, args, stdout, extracted, written, status>>

\* The value of a variable a specification does not use, and of a result not yet computed.
NotRun == "NotRun"

-----------------------------------------------------------------------------
(* Bounds of the model. *)

\* Longest output name drawn for ensure_csv_extension.
MaxNameLen == 4
\* Most bytes that follow the drawn file prefix in a sniffed file.
MaxTailLen == 4
\* Most files a directory walk yields.
MaxFiles == 3

-----------------------------------------------------------------------------
(* Python str helpers *)

SeqsUpTo(S, n) == UNION {[1..k -> S] : k \in 0..n}

UpperLetters == <<"A","B","C","D","E","F","G","H","I","J","K","L","M",
                  "N","O","P","Q","R","S","T","U","V","W","X","Y","Z">>
LowerLetters == <<"a","b","c","d","e","f","g","h","i","j","k","l","m",
                  "n","o","p","q","r","s","t","u","v","w","x","y","z">>

\* str.lower() on one character: A-Z map to a-z, every other character is kept.
LowerChar(c) ==
    IF \E i \in 1..Len(UpperLetters) : UpperLetters[i] = c
    THEN LowerLetters[CHOOSE i \in 1..Len(UpperLetters) : UpperLetters[i] = c]
    ELSE c

\* str.lower()
Lower(s) == [i \in 1..Len(s) |-> LowerChar(s[i])]

\* str.endswith(suffix)
EndsWith(s, suffix) ==
    /\ Len(suffix) <= Len(s)
    /\ SubSeq(s, Len(s) - Len(suffix) + 1, Len(s)) = suffix

\* str.startswith(prefix)
StartsWith(s, prefix) ==
    /\ Len(prefix) <= Len(s)
    /\ SubSeq(s, 1, Len(prefix)) = prefix

DotCsv == <<".", "c", "s", "v">>
DotPdf == <<".", "p", "d", "f">>

-----------------------------------------------------------------------------
(* ensure_csv_extension *)

\* A slip of ensure_csv_extension: the suffix is compared without .lower().
ensure_csv_extension_case_sensitive(name) ==
    IF ~EndsWith(name, DotCsv) THEN name \o DotCsv ELSE name

ensure_csv_extension(name) ==
    IF ~EndsWith(Lower(name), DotCsv) THEN name \o DotCsv ELSE name


-----------------------------------------------------------------------------
(* Outcomes of calls: a returned value or a raised exception *)

Ret(v) == [raised |-> FALSE, exc |-> "", val |-> v]
Raise(e) == [raised |-> TRUE, exc |-> e, val |-> <<>>]
\* No call was made yet.
NoOutcome == [raised |-> FALSE, exc |-> NotRun, val |-> <<>>]

-----------------------------------------------------------------------------
(* bytes.decode('utf-8'): strict decoding, as CPython does it *)

IsCont(b) == b \in 128..191

\* The second byte of a 3-byte sequence: no overlong forms (E0), no surrogates (ED).
Second3Ok(b1, b2) ==
    IF b1 = 224 THEN b2 \in 160..191
    ELSE IF b1 = 237 THEN b2 \in 128..159
    ELSE IsCont(b2)

\* The second byte of a 4-byte sequence: no overlong forms (F0), nothing above U+10FFFF (F4).
Second4Ok(b1, b2) ==
    IF b1 = 240 THEN b2 \in 144..191
    ELSE IF b1 = 244 THEN b2 \in 128..143
    ELSE IsCont(b2)

RECURSIVE Utf8Decode(_)
\* [ok, text]: text is the sequence of code points, ok is FALSE on UnicodeDecodeError.
Utf8Decode(b) ==
    IF b = <<>> THEN [ok |-> TRUE, text |-> <<>>]
    ELSE
      LET b1 == b[1]
          n == Len(b)
          step(k, cp) ==
              LET rest == Utf8Decode(SubSeq(b, k + 1, n))
              IN  IF rest.ok THEN [ok |-> TRUE, text |-> <<cp>> \o rest.text]
                  ELSE [ok |-> FALSE, text |-> <<>>]
          bad == [ok |-> FALSE, text |-> <<>>]
      IN  IF b1 < 128 THEN step(1, b1)
          ELSE IF b1 \in 194..223 THEN
              IF n >= 2 /\ IsCont(b[2])
              THEN step(2, (b1 - 192) * 64 + (b[2] - 128))
              ELSE bad
          ELSE IF b1 \in 224..239 THEN
              IF n >= 3 /\ Second3Ok(b1, b[2]) /\ IsCont(b[3])
              THEN step(3, (b1 - 224) * 4096 + (b[2] - 128) * 64 + (b[3] - 128))
              ELSE bad
          ELSE IF b1 \in 240..244 THEN
              IF n >= 4 /\ Second4Ok(b1, b[2]) /\ IsCont(b[3]) /\ IsCont(b[4])
              THEN step(4, (b1 - 240) * 262144 + (b[2] - 128) * 4096
                           + (b[3] - 128) * 64 + (b[4] - 128))
              ELSE bad
          ELSE bad

\* The code points str.isspace() accepts, which str.strip() removes.
IsSpace(cp) ==
    \/ cp \in 9..13
    \/ cp \in 28..32
    \/ cp \in {133, 160, 5760, 8232, 8233, 8239, 8287, 12288}
    \/ cp \in 8192..8202

RECURSIVE LStrip(_)
LStrip(s) == IF s # <<>> /\ IsSpace(s[1]) THEN LStrip(Tail(s)) ELSE s

RECURSIVE RStrip(_)
RStrip(s) ==
    IF s # <<>> /\ IsSpace(s[Len(s)]) THEN RStrip(SubSeq(s, 1, Len(s) - 1)) ELSE s

\* str.strip()
Strip(s) == RStrip(LStrip(s))

-----------------------------------------------------------------------------
(* extract_pdf_version *)

\* '%PDF-'
PdfSignature == <<37, 80, 68, 70, 45>>
\* 'unknown'
Unknown == <<117, 110, 107, 110, 111, 119, 110>>

\* f.read(n): the first n bytes, or all of them when the file is shorter.
Read(bytes, n) == SubSeq(bytes, 1, IF Len(bytes) < n THEN Len(bytes) ELSE n)

\* The lines after the decoding: header is the decoder's [ok, text].
VersionOfHeader(header) ==
    IF ~header.ok THEN Raise("UnicodeDecodeError")
    ELSE IF StartsWith(header.text, PdfSignature)
         THEN Ret(Strip(SubSeq(header.text, 6, Len(header.text))))
         ELSE Ret(Unknown)

\* f.read(8)
HeaderBytes(bytes) == Read(bytes, 8)

extract_pdf_version(bytes) == VersionOfHeader(Utf8Decode(HeaderBytes(bytes)))

-----------------------------------------------------------------------------
(* Python dict and Optional helpers *)

\* None, and a dict of <<key, value>> items in insertion order.
NoneVal == [none |-> TRUE, items |-> <<>>]
Dict(items) == [none |-> FALSE, items |-> items]

\* dict.keys(), in insertion order
Keys(d) == [i \in 1..Len(d.items) |-> d.items[i][1]]

\* dict.get(key, default)
DictGet(d, key, default) ==
    IF \E i \in 1..Len(d.items) : d.items[i][1] = key
    THEN d.items[CHOOSE i \in 1..Len(d.items) : d.items[i][1] = key][2]
    ELSE default

\* bool(x) of an Optional[dict]: None and {} are falsy.
Truthy(d) == ~d.none /\ Len(d.items) > 0

-----------------------------------------------------------------------------
(* What the PDF library shows of a file *)

InfoKeys == {"/Title", "/Author", "/Creator", "/CreationDate", "/ModDate",
             "/Subject", "/Keywords", "/Description", "/Producer"}

\* Text values are sequences of code points, '' is <<>>.  An info-dictionary entry
\* that is not there, and one whose value is the null object, are no text.
Absent == <<-1>>
Null == <<-2>>

\* DocumentInformation's text properties (title, author, ...): the entry's text,
\* or None when the entry is absent or no text; None here is Absent.
InfoProperty(info, key) == IF info[key] = Null THEN Absent ELSE info[key]

\* `x if x else ''` on a property: None and '' give ''.
OrEmpty(x) == IF x = Absent \/ x = <<>> THEN <<>> ELSE x

\* info.get(key, ''): the stored object when the key is there, even the null object.
InfoGet(info, key) == IF info[key] = Absent THEN <<>> ELSE info[key]

\* The exception classes `except Exception` catches.
ExceptionClasses == {"PdfReadError", "PermissionError", "AttributeError",
                     "UnicodeDecodeError", "OSError", "ValueError"}

-----------------------------------------------------------------------------
(* Printed lines *)

\* A printed line is <<text, path, err, count, out>>: the format string and what
\* fills its fields (<<>>, "" or 0 for a field the line does not have).
LineText(m) == m[1]
LineErr(m) == m[3]
LineCount(m) == m[4]

MsgError(path, e) ==
    <<"Error processing file {pdf_path}: {e}", path, e, 0, <<>>>>
MsgSaved(out) ==
    <<"Metadata is saved as {output_file_name}.", <<>>, "", 0, out>>
MsgSavedN(n, out) ==
    <<"Metadata from {len(metadata_list)} files was saved in {output_file_name}.",
      <<>>, "", n, out>>
MsgNoPdf ==
    <<"No pdf files found in directory.", <<>>, "", 0, <<>>>>
MsgInvalid ==
    <<"Please enter a valid path to a single pdffile or a directory.",
      <<>>, "", 0, <<>>>>

-----------------------------------------------------------------------------
(* extract_metadata *)

\* The body of the try block.  A file is [reader, hasInfo, info, bytes]: reader is
\* "ok" or the error open() or PdfReader raises, hasInfo says whether
\* reader.metadata is a DocumentInformation (it is None for a PDF without an info
\* dictionary), info maps each info key to its entry, bytes are the file's bytes.
\* The dict literal, v being the outcome of extract_pdf_version.
MetadataDict(info, v) ==
    IF v.raised THEN Raise(v.exc)
    ELSE Ret(Dict(<<
        <<"Title", OrEmpty(InfoProperty(info, "/Title"))>>,
        <<"Author", OrEmpty(InfoProperty(info, "/Author"))>>,
        <<"Creator", OrEmpty(InfoProperty(info, "/Creator"))>>,
        <<"Created", OrEmpty(InfoProperty(info, "/CreationDate"))>>,
        <<"Modified", OrEmpty(InfoProperty(info, "/ModDate"))>>,
        <<"Subject", OrEmpty(InfoProperty(info, "/Subject"))>>,
        <<"Keywords", InfoGet(info, "/Keywords")>>,
        <<"Description", InfoGet(info, "/Description")>>,
        <<"Producer", OrEmpty(InfoProperty(info, "/Producer"))>>,
        <<"PDF Version", v.val>> >>))

extract_metadata_try(c) ==
    IF c.reader # "ok" THEN Raise(c.reader)
    ELSE IF ~c.hasInfo THEN Raise("AttributeError")
    ELSE MetadataDict(c.info, extract_pdf_version(c.bytes))

\* A slip of the except clause: only the errors of the operating system are caught.
Caught_only_OSError(exc) == exc \in {"OSError", "PermissionError"}

\* except Exception
Caught(exc) == exc \in ExceptionClasses

\* The except clause, r being the outcome of the try block.
ExceptClause(pdf_path, r) ==
    IF r.raised /\ Caught(r.exc)
    THEN [out |-> Ret(NoneVal), printed |-> <<MsgError(pdf_path, r.exc)>>]
    ELSE [out |-> r, printed |-> <<>>]

\* [out, printed]: the outcome and the lines printed.
extract_metadata(pdf_path, c) == ExceptClause(pdf_path, extract_metadata_try(c))

-----------------------------------------------------------------------------
(* write_csv *)

\* What an output path holds: nothing, a file of rows (each a sequence of field
\* texts), or something open(path, 'w') fails on (a directory, a path in a missing
\* or read-only directory).
NodeAbsent == [kind |-> "absent", rows |-> <<>>]
NodeUnwritable == [kind |-> "unwritable", rows |-> <<>>]
NodeFile(rows) == [kind |-> "file", rows |-> rows]

\* 'NullObject', the null object's repr
NullObjectText == <<78, 117, 108, 108, 79, 98, 106, 101, 99, 116>>

\* str(value), as csv.writer renders a field.
FieldText(v) == IF v = Null THEN NullObjectText ELSE v

\* DictWriter.writerow: the dict's values in fieldnames order, '' for a missing
\* key; a key that is no fieldname raises ValueError.
RowOf(fieldnames, d) ==
    IF \E i \in 1..Len(d.items) :
          ~\E j \in 1..Len(fieldnames) : fieldnames[j] = d.items[i][1]
    THEN Raise("ValueError")
    ELSE Ret([j \in 1..Len(fieldnames) |-> FieldText(DictGet(d, fieldnames[j], <<>>))])

\* Append the row r (an outcome of RowOf) to the file: [exc, rows].
PutRow(rows, r) ==
    IF r.raised THEN [exc |-> r.exc, rows |-> rows]
    ELSE [exc |-> "", rows |-> Append(rows, r.val)]

RECURSIVE WriteRows(_, _, _, _)
\* The loop over metadata_list from index i on; w is [exc, rows], the file so far.
WriteRows(fieldnames, metadata_list, i, w) ==
    IF i > Len(metadata_list) \/ w.exc # "" THEN w
    ELSE WriteRows(fieldnames, metadata_list, i + 1,
                   PutRow(w.rows, RowOf(fieldnames, metadata_list[i])))

\* A slip of open(): mode 'a' keeps what the file held.
OpenForWrite_append(node) == node.rows

\* open(path, 'w') on a writable path: the file is created or truncated.
OpenForWrite(node) == <<>>

\* The file after the with block, w being [exc, rows].
StoreFile(fs, output_file_name, w) ==
    [exc |-> w.exc, fs |-> [fs EXCEPT ![output_file_name] = NodeFile(w.rows)]]

\* The with block: the header row, then one row per dict.
WriteTable(keys, metadata_list, output_file_name, fs) ==
    IF fs[output_file_name].kind = "unwritable"
    THEN [exc |-> "OSError", fs |-> fs]
    ELSE StoreFile(fs, output_file_name,
             WriteRows(keys, metadata_list, 1,
                 [exc |-> "",
                  rows |-> Append(OpenForWrite(fs[output_file_name]), keys)]))

\* A slip of write_csv: the guard on the list is missing, the file is opened anyway.
write_csv_unguarded(metadata_list, output_file_name, fs) ==
    IF metadata_list = <<>>
    THEN IF fs[output_file_name].kind = "unwritable"
         THEN [exc |-> "OSError", fs |-> fs]
         ELSE [exc |-> "IndexError",
               fs |-> [fs EXCEPT ![output_file_name] = NodeFile(<<>>)]]
    ELSE WriteTable(Keys(metadata_list[1]), metadata_list, output_file_name, fs)

\* [exc, fs]: the exception raised ("" for none) and the filesystem afterwards.
write_csv(metadata_list, output_file_name, fs) ==
    IF metadata_list # <<>>
    THEN WriteTable(Keys(metadata_list[1]), metadata_list, output_file_name, fs)
    ELSE [exc |-> "", fs |-> fs]

-----------------------------------------------------------------------------
(* process_file, process_directory, main *)

\* What a run did: the uncaught exception ("" for none), the lines printed, the
\* filesystem afterwards, the paths passed to extract_metadata and the lists
\* passed to write_csv.
Run(exc, printed, fs, ex, wr) ==
    [exc |-> exc, printed |-> printed, fs |-> fs, extracted |-> ex, written |-> wr]

\* After write_csv returned w = [exc, fs]: the success line, unless it raised.
AfterWrite(w, printed, message, ex, metadata_list) ==
    IF w.exc # ""
    THEN Run(w.exc, printed, w.fs, ex, <<metadata_list>>)
    ELSE Run("", Append(printed, message), w.fs, ex, <<metadata_list>>)

\* The lines after the extraction, m being what extract_metadata gave.
FileExtracted(m, file_path, output_file_name, fs) ==
    IF m.out.raised
    THEN Run(m.out.exc, m.printed, fs, <<file_path>>, <<>>)
    ELSE IF Truthy(m.out.val)
    THEN AfterWrite(write_csv(<<m.out.val>>, output_file_name, fs), m.printed,
                    MsgSaved(output_file_name), <<file_path>>, <<m.out.val>>)
    ELSE Run("", m.printed, fs, <<file_path>>, <<>>)

process_file(file_path, output_file_name, c, fs) ==
    FileExtracted(extract_metadata(file_path, c), file_path, output_file_name, fs)

\* os.path.join(root, file)
PathJoin(root, file) == root \o <<"/">> \o file

\* file.lower().endswith('.pdf')
IsPdfName(file) == EndsWith(Lower(file), DotPdf)

\* `if metadata:` in the loop
KeepRecord(metadata) == Truthy(metadata)

\* One pass of the inner loop's body on a .pdf file: acc after the extraction m.
FileWalked(acc, file_path, m) ==
    [exc |-> IF m.out.raised THEN m.out.exc ELSE "",
     printed |-> acc.printed \o m.printed,
     extracted |-> Append(acc.extracted, file_path),
     metadata_list |-> IF ~m.out.raised /\ KeepRecord(m.out.val)
                       THEN Append(acc.metadata_list, m.out.val)
                       ELSE acc.metadata_list]

RECURSIVE WalkFiles(_, _, _, _)
\* The inner loop, `for file in files`, from index i on.  acc is
\* [exc, printed, extracted, metadata_list].
WalkFiles(root, files, i, acc) ==
    IF i > Len(files) \/ acc.exc # "" THEN acc
    ELSE WalkFiles(root, files, i + 1,
             IF IsPdfName(files[i].name)
             THEN FileWalked(acc, PathJoin(root, files[i].name),
                      extract_metadata(PathJoin(root, files[i].name), files[i].content))
             ELSE acc)

RECURSIVE WalkDirs(_, _, _)
\* The outer loop, `for root, dirs, files in os.walk(directory_path)`, from the
\* t-th directory on.  walk is what os.walk yields: [root, files] per directory.
WalkDirs(walk, t, acc) ==
    IF t > Len(walk) \/ acc.exc # "" THEN acc
    ELSE WalkDirs(walk, t + 1, WalkFiles(walk[t].root, walk[t].files, 1, acc))

\* A slip of the success message: the files found are counted, not the records.
SavedCount_found(acc) == Len(acc.extracted)

\* len(metadata_list) in the success message
SavedCount(acc) == Len(acc.metadata_list)

\* The lines after the loop, acc being what the walk collected.
DirWalked(acc, output_file_name, fs) ==
    IF acc.exc # ""
    THEN Run(acc.exc, acc.printed, fs, acc.extracted, <<>>)
    ELSE IF acc.metadata_list # <<>>
    THEN AfterWrite(write_csv(acc.metadata_list, output_file_name, fs), acc.printed,
                    MsgSavedN(SavedCount(acc), output_file_name),
                    acc.extracted, acc.metadata_list)
    ELSE Run("", Append(acc.printed, MsgNoPdf), fs, acc.extracted, <<>>)

process_directory(walk, output_file_name, fs) ==
    DirWalked(WalkDirs(walk, 1, [exc |-> "", printed |-> <<>>, extracted |-> <<>>,
                                 metadata_list |-> <<>>]),
              output_file_name, fs)

\* The one input path of the model, and a directory below it.
InPath == <<"i", "n">>
SubPath == <<"i", "n", "/", "s">>

\* An argument that was not given (None).
NoneArg == <<"<None>">>

\* bool(arg): None and '' are falsy.
ArgTruthy(arg) == arg # NoneArg /\ arg # <<>>

\* What the input path names: nothing, a file, or a directory with its walk.
NoInput == [kind |-> "none", content |-> <<>>, walk |-> <<>>]
InputFile(c) == [kind |-> "file", content |-> <<c>>, walk |-> <<>>]
InputDir(walk) == [kind |-> "dir", content |-> <<>>, walk |-> walk]

\* os.path.isfile, os.path.isdir
IsFile(path, node) == path = InPath /\ node.kind = "file"
IsDir(path, node) == path = InPath /\ node.kind = "dir"

\* A slip of main: the kind of the path is not checked.
Dispatch_unchecked(a, node) ==
    IF ArgTruthy(a.file) THEN "file"
    ELSE IF ArgTruthy(a.directory) THEN "directory"
    ELSE "invalid"

\* The if / elif / else of main.
Dispatch(a, node) ==
    IF ArgTruthy(a.file) /\ IsFile(a.file, node) THEN "file"
    ELSE IF ArgTruthy(a.directory) /\ IsDir(a.directory, node) THEN "directory"
    ELSE "invalid"

\* What open(path, 'rb') and PdfReader meet at the input path.
Opened(node) ==
    IF node.kind = "file" THEN node.content[1]
    ELSE [reader |-> "OSError", hasInfo |-> FALSE,
          info |-> [k \in InfoKeys |-> Absent], bytes |-> <<>>]

\* The branch taken, with output_file_name computed before it.
Dispatched(branch, a, output_file_name, node, fs) ==
    IF branch = "file"
    THEN process_file(a.file, output_file_name, Opened(node), fs)
    ELSE IF branch = "directory"
    THEN process_directory(node.walk, output_file_name, fs)
    ELSE Run("", <<MsgInvalid>>, fs, <<>>, <<>>)

\* main() after parse_args() succeeded with a = [name, file, directory].
main(a, node, fs) ==
    Dispatched(Dispatch(a, node), a, ensure_csv_extension(a.name), node, fs)

-----------------------------------------------------------------------------
(* SpecExt: ensure_csv_extension on every name up to MaxNameLen *)

NameChars == {".", "c", "s", "v", "C", "S", "V", "r"}

\* ext_result before the call.
NoResult == <<NotRun>>

\* The variables of the other specifications stay at these values.
VerIdle == pdf_bytes = <<>> /\ version = NoOutcome
MainIdle ==
    /\ inNode = NoInput
    /\ outFs = <<>>
    /\ args = <<>>
    /\ stdout = <<>>
    /\ extracted = <<>>
    /\ written = <<>>
    /\ status = -1
ExtIdle == outputfile_name = <<>> /\ ext_result = NoResult

ExtInit ==
    /\ outputfile_name \in SeqsUpTo(NameChars, MaxNameLen)
    /\ ext_result = NoResult
    /\ VerIdle
    /\ MainIdle

\* output_file_name = ensure_csv_extension(args.name)
EnsureCall ==
    /\ ext_result = NoResult
    /\ ext_result' = ensure_csv_extension(outputfile_name)
    /\ UNCHANGED <<outputfile_name, verVars, mainVars>>

\* The returned name is given as the name of a later call.
EnsureAgain ==
    /\ ext_result # NoResult
    /\ outputfile_name' = ext_result
    /\ ext_result' = ensure_csv_extension(ext_result)
    /\ UNCHANGED <<verVars, mainVars>>

ExtNext == EnsureCall \/ EnsureAgain

SpecExt == ExtInit /\ [][ExtNext]_vars

-----------------------------------------------------------------------------
(* SpecVer: extract_pdf_version on files made of a prefix and a tail *)

\* '', '%PDF-', '%PDF' (the signature cut short), '%pdf-', and a byte no UTF-8
\* text starts with.
FilePrefixes == {<<>>, PdfSignature, <<37, 80, 68, 70>>, <<37, 112, 100, 102, 45>>,
                 <<255>>}

\* '1', '.', '4', ' ', and the two bytes of U+00E9.
TailBytes == {49, 46, 52, 32, 195, 169}

VerInit ==
    /\ pdf_bytes \in {pre \o tl : pre \in FilePrefixes,
                                  tl \in SeqsUpTo(TailBytes, MaxTailLen)}
    /\ version = NoOutcome
    /\ ExtIdle
    /\ MainIdle

\* extract_pdf_version(pdf_path) on the file
Sniff ==
    /\ version = NoOutcome
    /\ version' = extract_pdf_version(pdf_bytes)
    /\ UNCHANGED <<pdf_bytes, extVars, mainVars>>

VerNext == Sniff

SpecVer == VerInit /\ [][VerNext]_vars

-----------------------------------------------------------------------------
(* Spec: runs of main() on a filesystem *)

\* Sample texts: 'T', 'A', ... one letter per info key, dates as 'D:1', 'D:2'.
SampleText(key) ==
    CASE key = "/Title" -> <<84>>
      [] key = "/Author" -> <<65>>
      [] key = "/Creator" -> <<67>>
      [] key = "/CreationDate" -> <<68, 58, 49>>
      [] key = "/ModDate" -> <<68, 58, 50>>
      [] key = "/Subject" -> <<83>>
      [] key = "/Keywords" -> <<75>>
      [] key = "/Description" -> <<69>>
      [] key = "/Producer" -> <<80>>

\* Every entry set; only the title set; author and keywords null, title ''.
InfoFull == [k \in InfoKeys |-> SampleText(k)]
InfoTitleOnly == [k \in InfoKeys |-> IF k = "/Title" THEN SampleText(k) ELSE Absent]
InfoNulls ==
    [k \in InfoKeys |-> IF k \in {"/Author", "/Keywords"} THEN Null
                        ELSE IF k = "/Title" THEN <<>>
                        ELSE SampleText(k)]
InfoNone == [k \in InfoKeys |-> Absent]

\* '%PDF-1.4\n%', '%PDF-1.7', and '%PDF-1.' followed by bytes that are no UTF-8.
Bytes14 == <<37, 80, 68, 70, 45, 49, 46, 52, 10, 37>>
Bytes17 == <<37, 80, 68, 70, 45, 49, 46, 55>>
BytesBinary == <<37, 80, 68, 70, 45, 49, 46, 226, 227, 207>>

PdfFile(reader, hasInfo, info, bytes) ==
    [reader |-> reader, hasInfo |-> hasInfo, info |-> info, bytes |-> bytes]

\* The files of the model: PDFs the library reads (with each kind of info
\* dictionary, without one, with a header that is no text), a corrupt one, and
\* one open() is refused on.
Contents ==
    { PdfFile("ok", TRUE, InfoFull, Bytes14),
      PdfFile("ok", TRUE, InfoTitleOnly, Bytes17),
      PdfFile("ok", TRUE, InfoNulls, Bytes14),
      PdfFile("ok", TRUE, InfoFull, BytesBinary),
      PdfFile("ok", FALSE, InfoNone, Bytes14),
      PdfFile("PdfReadError", FALSE, InfoNone, <<37, 80, 68>>),
      PdfFile("PermissionError", FALSE, InfoNone, Bytes14) }

\* 'a.pdf', 'B.PDF', and 'c.txt', a text file.
PdfNames == {<<"a", ".", "p", "d", "f">>, <<"B", ".", "P", "D", "F">>}
TxtName == <<"c", ".", "t", "x", "t">>
TextFile == PdfFile("PdfReadError", FALSE, InfoNone, <<104, 105>>)

DirFile(name, c) == [content |-> c, name |-> name]

\* The files found in directories: under each PDF name, two PDFs with different
\* records and a corrupt one.
DirFiles ==
    {DirFile(nm, c) : nm \in PdfNames,
                      c \in { PdfFile("ok", TRUE, InfoFull, Bytes14),
                              PdfFile("ok", TRUE, InfoTitleOnly, Bytes17),
                              PdfFile("PdfReadError", FALSE, InfoNone, <<37, 80, 68>>) }}
    \cup {DirFile(TxtName, TextFile)}

\* The listings of one directory, of exactly n files: no name twice.
Listings(n) ==
    {l \in [1..n -> DirFiles] : \A i, j \in 1..n : i # j => l[i].name # l[j].name}

\* What os.walk yields on a tree of at most MaxFiles files: the top directory,
\* then possibly one directory below it.
Walks ==
    UNION {
      {<<[root |-> InPath, files |-> top]>> : top \in Listings(n)}
      \cup
      UNION {{<<[root |-> InPath, files |-> top], [root |-> SubPath, files |-> sub]>> :
                  top \in Listings(n), sub \in Listings(k)} : k \in 0..(MaxFiles - n)}
      : n \in 0..MaxFiles}

InNodes ==
    {NoInput} \cup {InputFile(c) : c \in Contents} \cup {InputDir(w) : w \in Walks}

\* The names given with -n: 'o' and 'O.CSV'.
MainNames == {<<"o">>, <<"O", ".", "C", "S", "V">>}
OutPaths == {ensure_csv_extension(n) : n \in MainNames}

\* What the output file holds before the first run, when it is there.
OldRows == <<<<"old">>>>

\* The arguments of a call: of main, [name, file, directory] as parse_args gives
\* them; of write_csv, the path as name.
Args(op, name, file, directory) ==
    [name |-> name, op |-> op, file |-> file, directory |-> directory]

NoArgs == Args("none", <<>>, NoneArg, NoneArg)

Init ==
    /\ inNode \in InNodes
    /\ outFs \in {[p \in OutPaths |-> node] :
                     node \in {NodeAbsent, NodeUnwritable, NodeFile(OldRows)}}
    /\ args = NoArgs
    /\ stdout = <<>>
    /\ extracted = <<>>
    /\ written = <<>>
    /\ status = -1
    /\ ExtIdle
    /\ VerIdle

\* One run of main, after parse_args gave name, file and directory.
RunMain(name, file, directory) ==
    \E r \in {main(Args("main", name, file, directory), inNode, outFs)} :
        /\ args' = Args("main", name, file, directory)
        /\ outFs' = r.fs
        /\ stdout' = r.printed
        /\ extracted' = r.extracted
        /\ written' = r.written
        /\ status' = (IF r.exc = "" THEN 0 ELSE 1)
        /\ UNCHANGED <<inNode, extVars, verVars>>

\* metapdf.py -n NAME -f in
RunWithFile == \E n \in MainNames : RunMain(n, InPath, NoneArg)

\* metapdf.py -n NAME -d in
RunWithDirectory == \E n \in MainNames : RunMain(n, NoneArg, InPath)

\* write_csv([], path), called on its own.
CallWriteCsvEmpty ==
    \E path \in OutPaths :
      \E w \in {write_csv(<<>>, path, outFs)} :
            /\ args' = Args("write_csv", path, NoneArg, NoneArg)
            /\ outFs' = w.fs
            /\ stdout' = <<>>
            /\ extracted' = <<>>
            /\ written' = <<<<>>>>
            /\ status' = (IF w.exc = "" THEN 0 ELSE 1)
            /\ UNCHANGED <<inNode, extVars, verVars>>

Next == RunWithFile \/ RunWithDirectory \/ CallWriteCsvEmpty

Spec == Init /\ [][Next]_vars

-----------------------------------------------------------------------------
(* What the claims speak of *)

TenKeys == <<"Title", "Author", "Creator", "Created", "Modified", "Subject",
             "Keywords", "Description", "Producer", "PDF Version">>

\* The info key behind each of the first nine fields.
InfoKeySeq == <<"/Title", "/Author", "/Creator", "/CreationDate", "/ModDate",
                "/Subject", "/Keywords", "/Description", "/Producer">>

\* The name ends in '.csv' / '.pdf', letters of either case.
EndsInCsvAnyCase(nm) ==
    /\ Len(nm) >= 4
    /\ nm[Len(nm) - 3] = "."
    /\ nm[Len(nm) - 2] \in {"c", "C"}
    /\ nm[Len(nm) - 1] \in {"s", "S"}
    /\ nm[Len(nm)] \in {"v", "V"}
EndsInPdfAnyCase(nm) ==
    /\ Len(nm) >= 4
    /\ nm[Len(nm) - 3] = "."
    /\ nm[Len(nm) - 2] \in {"p", "P"}
    /\ nm[Len(nm) - 1] \in {"d", "D"}
    /\ nm[Len(nm)] \in {"f", "F"}

RECURSIVE FlatFrom(_, _)
\* The files of a walk from its t-th directory on, in the order of discovery.
FlatFrom(walk, t) ==
    IF t > Len(walk) THEN <<>>
    ELSE [i \in 1..Len(walk[t].files) |->
             [path |-> walk[t].root \o <<"/">> \o walk[t].files[i].name,
              content |-> walk[t].files[i].content,
              name |-> walk[t].files[i].name]]
         \o FlatFrom(walk, t + 1)

NamedPdf(f) == EndsInPdfAnyCase(f.name)
Succeeds(f) == ~extract_metadata_try(f.content).raised
Fails(f) == extract_metadata_try(f.content).raised

\* The .pdf-named files of the input directory, those among them whose extraction
\* succeeds with their records, and those whose extraction fails.
PdfsFound == SelectSeq(FlatFrom(inNode.walk, 1), NamedPdf)
RecordsFound ==
    [i \in 1..Len(SelectSeq(PdfsFound, Succeeds)) |->
        extract_metadata_try(SelectSeq(PdfsFound, Succeeds)[i].content).val]
ErrorsFound ==
    [i \in 1..Len(SelectSeq(PdfsFound, Fails)) |->
        MsgError(SelectSeq(PdfsFound, Fails)[i].path,
                 extract_metadata_try(SelectSeq(PdfsFound, Fails)[i].content).exc)]

\* The last call was main on an existing file / an existing directory / a path
\* that is not of the kind the flag asks for.
FileRun(a) == a.op = "main" /\ a.file = InPath /\ inNode.kind = "file"
DirRun(a) == a.op = "main" /\ a.directory = InPath /\ inNode.kind = "dir"
InvalidRun(a) ==
    /\ a.op = "main"
    /\ \/ a.file # NoneArg /\ inNode.kind # "file"
       \/ a.directory # NoneArg /\ inNode.kind # "dir"
IsFileRun == FileRun(args)
IsDirRun == DirRun(args)
IsInvalidRun == InvalidRun(args)

\* The output path of the last run of main.
OutPath == ensure_csv_extension(args.name)

\* The row of a record: its values in key order, as text.
RowTexts(d) == [j \in 1..Len(d.items) |-> FieldText(d.items[j][2])]

IsErrorLine(m) == LineErr(m) # ""
IsSuccessLine(m) == LineText(m) \in {LineText(MsgSaved(<<>>)), LineText(MsgSavedN(0, <<>>))}

\* The last call yields no record: write_csv with an empty list, a single file
\* whose extraction fails, a directory with no .pdf-named file or none that
\* succeeds.
NoRecord(a) ==
    \/ a.op = "write_csv"
    \/ FileRun(a) /\ extract_metadata_try(inNode.content[1]).raised
    \/ DirRun(a) /\ RecordsFound = <<>>
NoRecordRun == NoRecord(args)

-----------------------------------------------------------------------------
(* The claims *)

\* C1: in directory mode the records handed to write_csv are exactly the
\* successful extractions of the walked files named *.pdf (any case), in walk
\* order, and no other file is passed to the extractor; the file written holds
\* the header row and one row per record; the count in the success line is the
\* number of records, not of .pdf files found.
C1_DirectoryRecords ==
    IsDirRun =>
        /\ extracted = [i \in 1..Len(PdfsFound) |-> PdfsFound[i].path]
        /\ written = (IF RecordsFound = <<>> THEN <<>> ELSE <<RecordsFound>>)
        /\ \A i \in 1..Len(stdout) :
              IsSuccessLine(stdout[i]) =>
                  stdout[i] = MsgSavedN(Len(RecordsFound), OutPath)
        /\ (RecordsFound # <<>> /\ status = 0) =>
              /\ stdout[Len(stdout)] = MsgSavedN(Len(RecordsFound), OutPath)
              /\ outFs[OutPath] =
                    NodeFile(<<TenKeys>> \o
                             [i \in 1..Len(RecordsFound) |-> RowTexts(RecordsFound[i])])

\* C1's case: three .pdf-named files, the middle one failing, two records saved.
C1_Witness ==
    /\ IsDirRun
    /\ Len(extracted) = 3
    /\ Fails(PdfsFound[2])
    /\ written # <<>>
    /\ Len(written[1]) = 2
    /\ written[1][1] # written[1][2]
    /\ status = 0
    /\ LineCount(stdout[Len(stdout)]) = 2
    /\ Len(outFs[OutPath].rows) = 3

\* C2: extract_metadata never raises to its caller: each failure prints one
\* "Error processing file" line with the path and the error and gives None; in
\* directory mode every .pdf-named file is extracted whatever failed before it.
C2_ExtractNeverRaises ==
    /\ IsDirRun =>
          /\ extracted = [i \in 1..Len(PdfsFound) |-> PdfsFound[i].path]
          /\ SelectSeq(stdout, IsErrorLine) = ErrorsFound
    /\ IsFileRun =>
          /\ extracted = <<InPath>>
          /\ extract_metadata_try(inNode.content[1]).raised =>
                /\ stdout = <<MsgError(InPath, extract_metadata_try(inNode.content[1]).exc)>>
                /\ written = <<>>
                /\ status = 0
    /\ (args.op = "main" /\ status # 0) => written # <<>>

\* C2's case: the first .pdf file fails, a later one is still extracted and saved.
C2_Witness ==
    /\ IsDirRun
    /\ Len(extracted) >= 2
    /\ Fails(PdfsFound[1])
    /\ Succeeds(PdfsFound[Len(PdfsFound)])
    /\ stdout[1] = MsgError(extracted[1], "PdfReadError")
    /\ written # <<>>

\* C3, as claimed: every PDF the library opens without a parse failure gives a
\* record of exactly the ten keys in order, each absent or null info entry as
\* '', each present one as its value.
C3_RecordForEveryParsedPdf ==
    (IsFileRun /\ inNode.content[1].reader = "ok") =>
        /\ written # <<>>
        /\ Keys(written[1][1]) = TenKeys
        /\ \A k \in 1..Len(InfoKeySeq) :
              written[1][1].items[k][2] =
                  (IF inNode.content[1].info[InfoKeySeq[k]] \in {Absent, Null}
                   THEN <<>>
                   ELSE inNode.content[1].info[InfoKeySeq[k]])

\* In a directory run that yields no record, the one closing line is
\* "No pdf files found in directory." and no success line is printed.
NoPdfLineOnly(a, out) ==
    DirRun(a) =>
        /\ out # <<>>
        /\ out[Len(out)] = MsgNoPdf
        /\ \A i \in 1..Len(out) :
              /\ ~IsSuccessLine(out[i])
              /\ out[i] = MsgNoPdf => i = Len(out)

\* C4: a call that yields no record leaves every output path as it was (not
\* created, not truncated); in directory mode it prints the no-files line and no
\* success line.
C4_NoRecordNoOutput ==
    [][NoRecord(args') => (outFs' = outFs /\ NoPdfLineOnly(args', stdout'))]_vars

\* C4's case: every .pdf file of the directory fails, the old output file stays.
C4_Witness ==
    /\ IsDirRun
    /\ NoRecordRun
    /\ Len(extracted) >= 2
    /\ outFs[OutPath] = NodeFile(OldRows)
    /\ stdout[Len(stdout)] = MsgNoPdf

\* C5: main takes exactly one branch; on a -f path that is no file or a -d path
\* that is no directory it prints the one diagnostic, calls neither the
\* extractor nor the writer and leaves the filesystem unchanged.
C5_InvalidPath ==
    [][/\ InvalidRun(args') =>
            /\ stdout' = <<MsgInvalid>>
            /\ extracted' = <<>>
            /\ written' = <<>>
            /\ outFs' = outFs
            /\ status' = 0
       /\ (FileRun(args') \/ DirRun(args')) =>
            /\ \A i \in 1..Len(stdout') : stdout'[i] # MsgInvalid
            /\ FileRun(args') => extracted' = <<InPath>>
            /\ DirRun(args') => \A i \in 1..Len(extracted') : extracted'[i] # InPath
      ]_vars

\* C5's case: -f names a directory that holds a PDF; only the diagnostic is printed.
C5_Witness ==
    /\ IsInvalidRun
    /\ args.file = InPath
    /\ inNode.kind = "dir"
    /\ PdfsFound # <<>>
    /\ stdout = <<MsgInvalid>>
    /\ outFs[OutPath] = NodeFile(OldRows)

\* C6, as claimed: once the arguments are parsed, every run of main ends with
\* exit status 0.
C6_AlwaysExitZero == args.op = "main" => status = 0

\* C7: a single-file run that saves a record leaves exactly the header and one
\* row in the output file, whatever the file held, and touches no other path;
\* the same run again leaves the file as the first run left it.
C7_Overwrite ==
    [][FileRun(args') =>
          /\ (args' = args) => (outFs' = outFs)
          /\ (written' # <<>> /\ status' = 0) =>
                outFs' = [outFs EXCEPT ![ensure_csv_extension(args'.name)] =
                             NodeFile(<<TenKeys, RowTexts(written'[1][1])>>)]
      ]_vars

\* C7's case: a record was saved over an output file that existed before (the
\* other output path still holds what both held at the start).
C7_Witness ==
    /\ IsFileRun
    /\ status = 0
    /\ written # <<>>
    /\ Len(outFs[OutPath].rows) = 2
    /\ \E p \in OutPaths : p # OutPath /\ outFs[p] = NodeFile(OldRows)

\* C8: ensure_csv_extension returns the name itself when it ends in '.csv' in
\* any letter case and the name plus '.csv' otherwise; the result always ends in
\* '.csv' in some letter case, and the function applied to its result returns it.
C8_EnsureCsvExtension ==
    ext_result # NoResult =>
        /\ ext_result = (IF EndsInCsvAnyCase(outputfile_name)
                         THEN outputfile_name
                         ELSE outputfile_name \o DotCsv)
        /\ EndsInCsvAnyCase(ext_result)
        /\ ensure_csv_extension(ext_result) = ext_result

\* C8's case: a name ending in '.CsV' came back as it was.
C8_Witness ==
    /\ outputfile_name = <<".", "C", "s", "V">>
    /\ ext_result = outputfile_name

\* The first eight bytes of the sniffed file begin with the bytes of '%PDF-'.
HasSignature == StartsWith(Read(pdf_bytes, 8), PdfSignature)

\* C9, as claimed: when the first 8 bytes begin with '%PDF-' the result is the
\* rest of them (at most 3 characters) trimmed, and otherwise it is 'unknown'.
C9_VersionFromPrefix ==
    version # NoOutcome =>
        /\ ~version.raised
        /\ HasSignature =>
              /\ Len(version.val) <= 3
              /\ Utf8Decode(SubSeq(Read(pdf_bytes, 8), 6, Len(Read(pdf_bytes, 8)))).ok
              /\ version.val =
                    Strip(Utf8Decode(SubSeq(Read(pdf_bytes, 8), 6,
                                            Len(Read(pdf_bytes, 8)))).text)
        /\ ~HasSignature => version.val = Unknown

\* C10, as claimed: a file that is no PDF (no signature: too short for it, empty,
\* other content) or whose first 8 bytes are no UTF-8 text gives 'unknown', and
\* nothing is raised.
C10_UnknownNeverRaises ==
    (version # NoOutcome /\ (~HasSignature \/ ~Utf8Decode(Read(pdf_bytes, 8)).ok)) =>
        version = Ret(Unknown)

=============================================================================
